---- MODULE Spec2Model ----
(***************************************************************************)
(* Model of js/sticky_banner.js: the Kargo.banner.StickyBanner widget.     *)
(*                                                                         *)
(* The state is the internal store (Kargo.store.banners.rendered), the     *)
(* children of the banners container (aside#kargo-banners), the            *)
(* StickyBanner instances the callers hold.  The page geometry the scroll   *)
(* handler queries when it runs (the blocker elements' bounding rectangles *)
(* and the viewport's heights) is an input of each scroll event.  Every    *)
(* public operation is one action: the                                     *)
(* constructor, destroy() and the scroll listener run to completion on the *)
(* browser's main thread.  A JavaScript exception (TypeError) ends the     *)
(* operation where it is thrown and keeps what was written before it.      *)
(***************************************************************************)
EXTENDS Integers, Sequences, FiniteSets

VARIABLES
    store,      \* Kargo.store.banners.rendered
    container,  \* child elements of the banners container, in document order
    handles,    \* StickyBanner instances constructed so far (this.html, this.config)
    elemOf,     \* history: the id of the element rendered for each instance
    nextId,     \* history: number of ids generateId has handed out
    last,       \* history: the operation that ran last and how it ended
    probe       \* a page and what a visibility helper last returned for it

vars == <<store, container, handles, elemOf, nextId, last, probe>>

-----------------------------------------------------------------------------
(* Bounds of the model *)

\* successful constructor calls in one behaviour
MaxBanners == 3
\* blocker elements in the document
MaxBlockers == 2
\* largest coordinate of a bounding rectangle and largest viewport height
MaxCoord == 2

-----------------------------------------------------------------------------
(* JavaScript values *)

\* the object literal {}
EmptyObj == [k \in {} |-> k]

\* the value of a property that an object does not have
Undefined == "undefined"

\* Object.keys(object)
Keys(object) == DOMAIN object

Positions == {"top", "bottom"}

\* config.position
PositionOf(config) ==
    IF "position" \in Keys(config) THEN config.position ELSE Undefined

\* the truthiness of config.hide
HideOf(config) == "hide" \in Keys(config) /\ config.hide

\* Kargo.config.banners.sticky.config
DefaultConfig == [position |-> "top", hide |-> FALSE]

\* Kargo.store at load time
InitialStore == [top |-> EmptyObj, bottom |-> EmptyObj]

\* element.style.display of an element whose style attribute sets no display
DisplayUnset == ""

-----------------------------------------------------------------------------
(* Inputs *)

Markups == {"a.png", "b.png"}

\* config objects a caller may pass: {}, the full ones, one with a position
\* that is neither 'top' nor 'bottom', and one without a position
Configs ==
    {EmptyObj}
    \cup [position : Positions, hide : BOOLEAN]
    \cup {[position |-> "left", hide |-> FALSE], [hide |-> TRUE]}

\* argument lists of new StickyBanner(...): with and without the config
ArgLists == {<<h>> : h \in Markups} \cup {<<h, c>> : h \in Markups, c \in Configs}

Coords == (0 - MaxCoord) .. MaxCoord

\* results of getBoundingClientRect()
Rects == {r \in [top : Coords, bottom : Coords] : r.top <= r.bottom}

BlockerLists == UNION {[1..n -> Rects] : n \in 0..MaxBlockers}

Viewports == [clientHeight : 1..MaxCoord, innerHeight : 1..MaxCoord]

\* The pages the scroll events of Spec see: a viewport whose two heights
\* differ, and blockers above it, touching its top edge (bottom = 0), inside
\* it below clientHeight, and just below it (top = the viewport's height).
PageViewport == [clientHeight |-> 1, innerHeight |-> MaxCoord]

Above == [top |-> 0 - MaxCoord, bottom |-> 0 - 1]

Touching == [top |-> 0 - 1, bottom |-> 0]

Inside == [top |-> MaxCoord - 1, bottom |-> MaxCoord]

Below == [top |-> MaxCoord, bottom |-> MaxCoord]

PageLayouts ==
    {<<>>, <<Above>>, <<Inside>>, <<Below>>, <<Above, Inside>>, <<Touching, Below>>}

-----------------------------------------------------------------------------
(* Kargo.helper *)

\* isPropertyEmpty: Object.keys(object[property]) throws a TypeError when
\* object[property] is undefined
isPropertyEmptyThrows(object, property) == property \notin Keys(object)

isPropertyEmpty(object, property) == Keys(object[property]) = {}

\* Math.max(document.documentElement.clientHeight, window.innerHeight)
viewHeight(vp) ==
    IF vp.clientHeight >= vp.innerHeight THEN vp.clientHeight ELSE vp.innerHeight

\* isElementVisible, but with <= and > at the two edges
isElementVisibleStrict(rect, vp) ==
    ~(rect.bottom <= 0 \/ rect.top - viewHeight(vp) > 0)

isElementVisible(rect, vp) ==
    ~(rect.bottom < 0 \/ rect.top - viewHeight(vp) >= 0)

-----------------------------------------------------------------------------
(* The document *)

\* index in the container of the element with this id, 0 for null
getElementById(cont, id) ==
    IF \E i \in 1..Len(cont) : cont[i].id = id
    THEN CHOOSE i \in 1..Len(cont) : cont[i].id = id
    ELSE 0

\* container.removeChild of the child at index i
removeChild(cont, i) == [j \in 1..(Len(cont) - 1) |-> IF j < i THEN cont[j] ELSE cont[j + 1]]

\* container.appendChild
appendChild(cont, element) == Append(cont, element)


-----------------------------------------------------------------------------
(* Private banner methods *)

\* class attribute of a banner, as the list of its class names
getBannerClass(config) ==
    IF HideOf(config)
    THEN <<"banner-sticky", PositionOf(config), "hide">>
    ELSE <<"banner-sticky", PositionOf(config)>>

\* style attribute of a banner: the configured styles (none of them sets
\* display) followed by '<position>:0;', kept as the edge it names
getBannerStyle(position) == position

\* createBanner, but a banner configured to hide is rendered hidden
createBannerHidden(bannerId, html, config) ==
    [id        |-> bannerId,
     class     |-> getBannerClass(config),
     style     |-> getBannerStyle(PositionOf(config)),
     innerHTML |-> html,
     display   |-> IF HideOf(config) THEN "none" ELSE DisplayUnset]

\* document.createElement and the setAttribute calls of renderBanner
createBanner(bannerId, html, config) ==
    [id        |-> bannerId,
     class     |-> getBannerClass(config),
     style     |-> getBannerStyle(PositionOf(config)),
     innerHTML |-> html,
     display   |-> DisplayUnset]

\* storeBanner, but an occupied slot keeps the reference it holds
storeBannerIfEmpty(st, bannerId, config) ==
    IF Keys(st[PositionOf(config)]) = {}
    THEN [st EXCEPT ![PositionOf(config)] = [html |-> bannerId, config |-> config]]
    ELSE st

storeBanner(st, bannerId, config) ==
    [st EXCEPT ![PositionOf(config)] = [html |-> bannerId, config |-> config]]

hasBanner(st, position) ==
    IF ~isPropertyEmpty(st, position)
    THEN PositionOf(st[position].config) = position
    ELSE FALSE

\* replaceBanner, but without the removeChild call
replaceBannerKeep(st, cont, banner, config) ==
    [threw |-> FALSE, container |-> appendChild(cont, banner)]

\* replaceBanner, but removing the container's first child
replaceBannerFirst(st, cont, banner, config) ==
    [threw |-> FALSE, container |-> appendChild(removeChild(cont, 1), banner)]

\* replaceBanner: removeChild(null) throws when the stored element is not in
\* the document
replaceBanner(st, cont, banner, config) ==
    LET renderedBannerId == st[PositionOf(config)].html
        renderedBanner   == getElementById(cont, renderedBannerId)
    IN  IF renderedBanner = 0
        THEN [threw |-> TRUE, container |-> cont]
        ELSE [threw |-> FALSE,
              container |-> appendChild(removeChild(cont, renderedBanner), banner)]

\* renderBanner, but appending the new element before hasBanner is evaluated
renderBannerEager(st, cont, html, config, bannerId) ==
    LET position == PositionOf(config)
        banner   == createBanner(bannerId, html, config)
    IN  IF isPropertyEmptyThrows(st, position)
        THEN [threw |-> TRUE, store |-> st, container |-> appendChild(cont, banner),
              path |-> "none"]
        ELSE IF hasBanner(st, position)
        THEN [threw |-> FALSE, store |-> storeBanner(st, bannerId, config),
              container |-> replaceBanner(st, cont, banner, config).container,
              path |-> "replace"]
        ELSE [threw |-> FALSE, store |-> storeBanner(st, bannerId, config),
              container |-> appendChild(cont, banner), path |-> "append"]

renderBanner(st, cont, html, config, bannerId) ==
    LET position == PositionOf(config)
    IN  IF isPropertyEmptyThrows(st, position)
        THEN [threw |-> TRUE, store |-> st, container |-> cont, path |-> "none"]
        ELSE
          LET banner == createBanner(bannerId, html, config)
          IN  IF hasBanner(st, position)
              THEN LET r == replaceBanner(st, cont, banner, config)
                   IN  IF r.threw
                       THEN [threw |-> TRUE, store |-> st, container |-> cont,
                             path |-> "replace"]
                       ELSE [threw |-> FALSE,
                             store |-> storeBanner(st, bannerId, config),
                             container |-> r.container, path |-> "replace"]
              ELSE [threw |-> FALSE,
                    store |-> storeBanner(st, bannerId, config),
                    container |-> appendChild(cont, banner), path |-> "append"]

\* the replace path of renderBanner, but appending the new element before
\* the old one is removed
renderBannerStepsLate(st, cont, html, config, bannerId) ==
    LET banner         == createBanner(bannerId, html, config)
        renderedBanner == getElementById(cont, st[PositionOf(config)].html)
        appended       == appendChild(cont, banner)
        removed        == removeChild(appended, renderedBanner)
    IN  << [store |-> st, container |-> cont],
           [store |-> st, container |-> appended],
           [store |-> st, container |-> removed],
           [store |-> storeBanner(st, bannerId, config), container |-> removed] >>

\* the replace path of renderBanner, statement by statement: the store and
\* the container on entry, after container.removeChild(renderedBanner), after
\* container.appendChild(banner) and after storeBanner(banner, config)
renderBannerSteps(st, cont, html, config, bannerId) ==
    LET banner         == createBanner(bannerId, html, config)
        renderedBanner == getElementById(cont, st[PositionOf(config)].html)
        removed        == removeChild(cont, renderedBanner)
        appended       == appendChild(removed, banner)
    IN  << [store |-> st, container |-> cont],
           [store |-> st, container |-> removed],
           [store |-> st, container |-> appended],
           [store |-> storeBanner(st, bannerId, config), container |-> appended] >>

\* removeBanner, but returning quietly when the slot is empty
removeBannerGuarded(st, cont, banner) ==
    LET bannerPosition == PositionOf(banner.config)
    IN  IF bannerPosition \notin Keys(st) \/ "html" \notin Keys(st[bannerPosition])
        THEN [threw |-> FALSE, store |-> st, container |-> cont]
        ELSE [threw |-> FALSE, store |-> [st EXCEPT ![bannerPosition] = EmptyObj],
              container |-> removeChild(cont, getElementById(cont, st[bannerPosition].html))]

\* removeBanner, but without clearing the slot of the store
removeBannerKeepStore(st, cont, banner) ==
    LET bannerPosition == PositionOf(banner.config)
    IN  IF bannerPosition \notin Keys(st) \/ "html" \notin Keys(st[bannerPosition])
        THEN [threw |-> TRUE, store |-> st, container |-> cont]
        ELSE
          LET bannerToRemove == getElementById(cont, st[bannerPosition].html)
          IN  IF bannerToRemove = 0
              THEN [threw |-> TRUE, store |-> st, container |-> cont]
              ELSE [threw |-> FALSE, store |-> st,
                    container |-> removeChild(cont, bannerToRemove)]

\* removeBanner, but without the removeChild call
removeBannerKeepElement(st, cont, banner) ==
    LET bannerPosition == PositionOf(banner.config)
    IN  IF bannerPosition \notin Keys(st) \/ "html" \notin Keys(st[bannerPosition])
        THEN [threw |-> TRUE, store |-> st, container |-> cont]
        ELSE [threw |-> FALSE, store |-> [st EXCEPT ![bannerPosition] = EmptyObj],
              container |-> cont]

\* removeBanner: store[bannerPosition].html.id throws on an empty slot; the
\* slot is cleared before removeChild, which throws on null
removeBanner(st, cont, banner) ==
    LET bannerPosition == PositionOf(banner.config)
    IN  IF bannerPosition \notin Keys(st) \/ "html" \notin Keys(st[bannerPosition])
        THEN [threw |-> TRUE, store |-> st, container |-> cont]
        ELSE
          LET bannerId       == st[bannerPosition].html
              bannerToRemove == getElementById(cont, bannerId)
              cleared        == [st EXCEPT ![bannerPosition] = EmptyObj]
          IN  IF bannerToRemove = 0
              THEN [threw |-> TRUE, store |-> cleared, container |-> cont]
              ELSE [threw |-> FALSE, store |-> cleared,
                    container |-> removeChild(cont, bannerToRemove)]

\* the loop of isBlockerVisible, but assigning each element's visibility to
\* value
RECURSIVE isBlockerVisibleLast(_, _, _, _)
isBlockerVisibleLast(bl, vp, blocker, value) ==
    IF blocker > Len(bl)
    THEN value
    ELSE isBlockerVisibleLast(bl, vp, blocker + 1, isElementVisible(bl[blocker], vp))

\* the loop of isBlockerVisible over blockers[blocker .. length-1]
RECURSIVE isBlockerVisibleFrom(_, _, _, _)
isBlockerVisibleFrom(bl, vp, blocker, value) ==
    IF blocker > Len(bl)
    THEN value
    ELSE isBlockerVisibleFrom(bl, vp, blocker + 1,
                              IF isElementVisible(bl[blocker], vp) THEN TRUE ELSE value)

isBlockerVisible(bl, vp) == isBlockerVisibleFrom(bl, vp, 1, FALSE)

\* setDisplayOf, but without the test of the hide configuration
setDisplayOfAll(cont, stored, bl, vp) ==
    LET banner == getElementById(cont, stored.html)
    IN  IF banner # 0
        THEN [cont EXCEPT ![banner].display =
                 IF isBlockerVisible(bl, vp) THEN "none" ELSE "block"]
        ELSE cont

\* setDisplayOf, but showing again a banner that is already hidden
setDisplayOfToggle(cont, stored, bl, vp) ==
    LET banner == getElementById(cont, stored.html)
    IN  IF banner # 0 /\ HideOf(stored.config)
        THEN [cont EXCEPT ![banner].display =
                 IF isBlockerVisible(bl, vp) /\ cont[banner].display # "none"
                 THEN "none" ELSE "block"]
        ELSE cont

\* setDisplayOf, but taking a hidden banner out of the document
setDisplayOfRemove(cont, stored, bl, vp) ==
    LET banner == getElementById(cont, stored.html)
    IN  IF banner # 0 /\ HideOf(stored.config)
        THEN IF isBlockerVisible(bl, vp)
             THEN removeChild(cont, banner)
             ELSE [cont EXCEPT ![banner].display = "block"]
        ELSE cont

\* one if-statement of setBannerDisplay
setDisplayOf(cont, stored, bl, vp) ==
    LET banner == getElementById(cont, stored.html)
    IN  IF banner # 0 /\ HideOf(stored.config)
        THEN [cont EXCEPT ![banner].display =
                 IF isBlockerVisible(bl, vp) THEN "none" ELSE "block"]
        ELSE cont

\* setBannerDisplay: storedTopBanner.config.hide and
\* storedBottomBanner.config.hide throw on an empty slot, before any display
\* is set
setBannerDisplay(st, cont, bl, vp) ==
    IF "config" \notin Keys(st.top) \/ "config" \notin Keys(st.bottom)
    THEN [threw |-> TRUE, container |-> cont]
    ELSE [threw |-> FALSE,
          container |-> setDisplayOf(setDisplayOf(cont, st.top, bl, vp),
                                     st.bottom, bl, vp)]

-----------------------------------------------------------------------------
(* Kargo.banner *)

\* StickyBanner, but defaulting each missing field of the config
StickyBannerMerge(st, cont, args, bannerId) ==
    IF Len(args) < 2
    THEN [threw |-> TRUE, store |-> st, container |-> cont, path |-> "none",
          noConfig |-> FALSE, instance |-> <<>>]
    ELSE
      LET config == args[2]
          merged == [position |-> IF "position" \in Keys(config)
                                  THEN config.position ELSE DefaultConfig.position,
                     hide     |-> IF "hide" \in Keys(config)
                                  THEN config.hide ELSE DefaultConfig.hide]
          this   == [html |-> args[1], config |-> merged]
          r      == renderBanner(st, cont, this.html, this.config, bannerId)
      IN  [threw |-> r.threw, store |-> r.store, container |-> r.container,
           path |-> r.path, noConfig |-> Keys(config) = {},
           instance |-> IF r.threw THEN <<>> ELSE <<this>>]

\* new StickyBanner(html, config): Object.keys(config) throws when config is
\* undefined; an instance exists only when the constructor returns
StickyBanner(st, cont, args, bannerId) ==
    IF Len(args) < 2
    THEN [threw |-> TRUE, store |-> st, container |-> cont, path |-> "none",
          noConfig |-> FALSE, instance |-> <<>>]
    ELSE
      LET html     == args[1]
          config   == args[2]
          noConfig == Keys(config) = {}
          this     == [html |-> html,
                       config |-> IF noConfig THEN DefaultConfig ELSE config]
          r        == renderBanner(st, cont, this.html, this.config, bannerId)
      IN  [threw |-> r.threw, store |-> r.store, container |-> r.container,
           path |-> r.path, noConfig |-> noConfig,
           instance |-> IF r.threw THEN <<>> ELSE <<this>>]

\* StickyBanner.prototype.destroy
destroy(st, cont, banner) == removeBanner(st, cont, banner)

-----------------------------------------------------------------------------
(* The state machine *)

NoOp ==
    [op |-> "load", threw |-> FALSE, argc |-> 0, noConfig |-> FALSE, handle |-> 0,
     path |-> "none"]

\* no page has been put to the visibility helpers
NoProbe ==
    [blockers |-> <<>>, viewport |-> PageViewport, asked |-> "none", index |-> 0,
     value |-> FALSE]

\* after the script has loaded: init() has rendered the empty container and
\* attached the scroll listener
Init ==
    /\ store = InitialStore
    /\ container = <<>>
    /\ handles = <<>>
    /\ elemOf = <<>>
    /\ nextId = 0
    /\ last = NoOp
    /\ probe = NoProbe

\* a caller evaluates new StickyBanner(...)
Create(args) ==
    LET r == StickyBanner(store, container, args, nextId + 1)
    IN  /\ r.path # "none" => nextId < MaxBanners
        /\ store' = r.store
        /\ container' = r.container
        /\ handles' = handles \o r.instance
        /\ elemOf' = IF r.threw THEN elemOf ELSE Append(elemOf, nextId + 1)
        /\ nextId' = IF r.path # "none" THEN nextId + 1 ELSE nextId
        /\ last' = [NoOp EXCEPT !.op = "create", !.threw = r.threw,
                                !.argc = Len(args), !.noConfig = r.noConfig,
                                !.handle = IF r.threw THEN 0 ELSE Len(handles) + 1,
                                !.path = r.path]
        /\ UNCHANGED probe

\* a caller calls destroy() on an instance it holds
Destroy(h) ==
    LET r == destroy(store, container, handles[h])
    IN  /\ store' = r.store
        /\ container' = r.container
        /\ last' = [NoOp EXCEPT !.op = "destroy", !.threw = r.threw, !.handle = h]
        /\ UNCHANGED <<handles, elemOf, nextId, probe>>

\* the window fires a scroll event; bl and vp are what the handler's queries
\* of the document return during this event
Scroll(bl, vp) ==
    LET r == setBannerDisplay(store, container, bl, vp)
    IN  /\ container' = r.container
        /\ last' = [NoOp EXCEPT !.op = "scroll", !.threw = r.threw]
        /\ UNCHANGED <<store, handles, elemOf, nextId, probe>>

Next ==
    \/ \E args \in ArgLists : Create(args)
    \/ \E h \in 1..Len(handles) : Destroy(h)
    \/ \E bl \in PageLayouts : Scroll(bl, PageViewport)

Spec == Init /\ [][Next]_vars

-----------------------------------------------------------------------------
(* The visibility helpers on their own: every page within the bounds *)

VisibleInit ==
    /\ store = InitialStore
    /\ container = <<>>
    /\ handles = <<>>
    /\ elemOf = <<>>
    /\ nextId = 0
    /\ last = NoOp
    /\ probe \in {[NoProbe EXCEPT !.blockers = bl, !.viewport = vp] :
                    bl \in BlockerLists, vp \in Viewports}

\* isBlockerVisible() queries the page's blockers and answers
AskBlockerVisible ==
    /\ probe' = [probe EXCEPT !.asked = "isBlockerVisible", !.index = 0,
                              !.value = isBlockerVisible(probe.blockers, probe.viewport)]
    /\ UNCHANGED <<store, container, handles, elemOf, nextId, last>>

\* isElementVisible(element) answers for the page's i-th blocker
AskElementVisible(i) ==
    /\ probe' = [probe EXCEPT !.asked = "isElementVisible", !.index = i,
                              !.value = isElementVisible(probe.blockers[i],
                                                         probe.viewport)]
    /\ UNCHANGED <<store, container, handles, elemOf, nextId, last>>

\* the page's i-th blocker leaves the document; the next query sees the rest
RemoveBlocker(i) ==
    /\ probe' = [NoProbe EXCEPT !.blockers = removeChild(probe.blockers, i),
                                !.viewport = probe.viewport]
    /\ UNCHANGED <<store, container, handles, elemOf, nextId, last>>

VisibleNext ==
    \/ AskBlockerVisible
    \/ \E i \in 1..Len(probe.blockers) : AskElementVisible(i)
    \/ \E i \in 1..Len(probe.blockers) : RemoveBlocker(i)

SpecVisible == VisibleInit /\ [][VisibleNext]_vars

-----------------------------------------------------------------------------
(* Vocabulary of the properties *)

\* indices of the banner elements the container holds for position p
ElementsAt(cont, p) == {i \in 1..Len(cont) : cont[i].style = p}

\* ids of the elements in the document
IdsIn(cont) == {cont[i].id : i \in 1..Len(cont)}

\* slot p of the registry holds an instance
Occupied(st, p) == Keys(st[p]) # {}

\* the banner elements of position p, in document order
BannersAt(cont, p) == SelectSeq(cont, LAMBDA e : e.style = p)

\* at least one blocker's rectangle intersects the viewport's vertical span
AnyBlockerIntersects(bl, vp) ==
    \E i \in 1..Len(bl) : bl[i].bottom >= 0 /\ bl[i].top < viewHeight(vp)

\* the position a constructor call with these arguments is for
TargetPosition(args) ==
    IF Len(args) < 2 THEN Undefined
    ELSE IF args[2] = EmptyObj THEN "top" ELSE PositionOf(args[2])

-----------------------------------------------------------------------------
(* Properties *)

\* C1: after any sequence of create, destroy and scroll operations, for each
\* position the registry holds zero or one instance and the container holds
\* at most one rendered banner element.
C1_OnePerPosition ==
    /\ Keys(store) = Positions
    /\ \A p \in Positions :
         /\ Keys(store[p]) \in {{}, {"html", "config"}}
         /\ Cardinality(ElementsAt(container, p)) <= 1

\* a replacing create has run and both positions hold their one banner
C1_Witness ==
    /\ last.op = "create" /\ ~last.threw /\ last.path = "replace"
    /\ \A p \in Positions :
         Occupied(store, p) /\ Cardinality(ElementsAt(container, p)) = 1

\* C2: a create at a position where a banner is active evicts it: when the
\* create returns the earlier element is out of the document and the one
\* instance registered and rendered at the position is the new one, with the
\* markup and the config of the call.
C2_ReplaceEvicts ==
    [][\A args \in ArgLists, p \in Positions :
         (/\ last'.op = "create" /\ ~last'.threw
          /\ TargetPosition(args) = p
          /\ Occupied(store, p)
          /\ Create(args))
         => LET old  == store[p].html
                new  == elemOf'[last'.handle]
                inst == handles'[last'.handle]
            IN  /\ old \notin IdsIn(container')
                /\ inst.html = args[1]
                /\ inst.config = IF args[2] = EmptyObj THEN DefaultConfig ELSE args[2]
                /\ store'[p] = [html |-> new, config |-> inst.config]
                /\ Cardinality(ElementsAt(container', p)) = 1
                /\ \A i \in ElementsAt(container', p) :
                     container'[i].id = new /\ container'[i].innerHTML = args[1]
      ]_vars

\* a create has replaced a banner whose markup differs from the new one's
C2_Witness ==
    /\ last.op = "create" /\ ~last.threw /\ last.path = "replace"
    /\ \E h \in 1..Len(handles) :
         /\ h # last.handle
         /\ PositionOf(handles[h].config) = PositionOf(handles[last.handle].config)
         /\ handles[h].html # handles[last.handle].html

\* C3: destroy() on a handle removes from the document only the element
\* rendered for that handle and clears only that handle's own registration;
\* on a handle whose banner a later create has evicted it neither removes the
\* replacement's element nor empties the replacement's slot.
C3_DestroyOnlyOwn ==
    [][\A h \in 1..Len(handles) :
         (last'.op = "destroy" /\ Destroy(h))
         => /\ IdsIn(container) \ IdsIn(container') \subseteq {elemOf[h]}
            /\ \A p \in Positions :
                 Keys(store'[p]) # Keys(store[p]) => store[p].html = elemOf[h]
      ]_vars

\* C4: after a scroll event, in every registry state, each registered banner
\* whose config has hide = true has display 'none' when a blocker intersects
\* the viewport and 'block' otherwise.
C4_ScrollSetsDisplay ==
    [][\A bl \in PageLayouts :
         (last'.op = "scroll" /\ Scroll(bl, PageViewport))
         => \A p \in Positions :
              (Occupied(store, p) /\ HideOf(store[p].config))
              => LET banner == getElementById(container', store[p].html)
                 IN  /\ banner # 0
                     /\ container'[banner].display =
                          IF AnyBlockerIntersects(bl, PageViewport)
                          THEN "none" ELSE "block"
      ]_vars

\* C5: a constructor call without the config argument substitutes the default
\* configuration: it completes and installs a banner at top with hide = false.
C5_AbsentConfigDefaults ==
    (last.op = "create" /\ last.argc = 1)
    => /\ ~last.threw
       /\ handles[last.handle].config = [position |-> "top", hide |-> FALSE]
       /\ "html" \in Keys(store.top)
       /\ store.top.html = elemOf[last.handle]

C7_CreatedIsInstalled ==
    (last.op = "create" /\ ~last.threw)
    => LET p == PositionOf(handles[last.handle].config)
           e == elemOf[last.handle]
       IN  /\ p \in Positions
           /\ "html" \in Keys(store[p])
           /\ store[p].html = e
           /\ store[p].config = handles[last.handle].config
           /\ getElementById(container, e) # 0
           /\ container[getElementById(container, e)].style = p
           /\ container[getElementById(container, e)].display # "none"
           /\ Cardinality(ElementsAt(container, p)) = 1

\* a create with hide = true at bottom has returned
C7_Witness ==
    /\ last.op = "create" /\ ~last.threw
    /\ handles[last.handle].config = [position |-> "bottom", hide |-> TRUE]

\* C8: a create at one position, evicting or not, leaves the other position's
\* registry slot and rendered element unchanged.
C8_OtherPositionUnchanged ==
    [][\A args \in ArgLists, q \in Positions :
         (last'.op = "create" /\ TargetPosition(args) # q /\ Create(args))
         => /\ store'[q] = store[q]
            /\ BannersAt(container', q) = BannersAt(container, q)
      ]_vars

\* a create has replaced the banner at one position while the other position
\* holds a banner
C8_Witness ==
    /\ last.op = "create" /\ ~last.threw /\ last.path = "replace"
    /\ \A q \in Positions : Occupied(store, q)

\* C9: destroy() on the handle of the banner active at p removes its element
\* from the document and empties slot p; the create at p that follows takes
\* the append path and succeeds, leaving exactly one banner at p.
C9_DestroyFreesSlot ==
    /\ [][\A h \in 1..Len(handles) :
            LET p == PositionOf(handles[h].config)
            IN  (/\ last'.op = "destroy"
                 /\ Occupied(store, p)
                 /\ store[p].html = elemOf[h]
                 /\ Destroy(h))
                => /\ ~last'.threw
                   /\ store'[p] = EmptyObj
                   /\ elemOf[h] \notin IdsIn(container')
                   /\ ElementsAt(container', p) = {}
         ]_vars
    /\ [][\A args \in ArgLists :
            (/\ last.op = "destroy" /\ ~last.threw
             /\ last'.op = "create"
             /\ TargetPosition(args) = PositionOf(handles[last.handle].config)
             /\ Create(args))
            => /\ ~last'.threw
               /\ last'.path = "append"
               /\ Cardinality(ElementsAt(container', TargetPosition(args))) = 1
         ]_vars

\* the second create has appended at the position that destroy() on the
\* first, active, banner had freed
C9_Witness ==
    /\ last.op = "create" /\ ~last.threw /\ last.path = "append"
    /\ Len(handles) = 2 /\ last.handle = 2
    /\ PositionOf(handles[1].config) = PositionOf(handles[2].config)
    /\ elemOf[1] \notin IdsIn(container)
    /\ Cardinality(ElementsAt(container, PositionOf(handles[2].config))) = 1

\* C10: a scroll event never changes the display of a registered banner whose
\* config has hide = false, whatever the blockers and the other position:
\* its display stays as it was rendered.
C10_ScrollKeepsUnhidden ==
    [][\A bl \in PageLayouts :
         (last'.op = "scroll" /\ Scroll(bl, PageViewport))
         => \A p \in Positions :
              (Occupied(store, p) /\ ~HideOf(store[p].config))
              => /\ BannersAt(container', p) = BannersAt(container, p)
                 /\ \A i \in ElementsAt(container', p) :
                      container'[i].display = DisplayUnset
      ]_vars

\* a scroll with a visible blocker has hidden the banner of one position
\* while the other position holds a banner with hide = false
C10_Witness ==
    /\ last.op = "scroll" /\ ~last.threw
    /\ \E p, q \in Positions :
         /\ Occupied(store, p) /\ ~HideOf(store[p].config)
         /\ Occupied(store, q) /\ HideOf(store[q].config)
         /\ \E i \in ElementsAt(container, q) : container[i].display = "none"

\* a config that is not empty and names no position of the store
BadPosition(args) ==
    /\ Len(args) = 2
    /\ args[2] # EmptyObj
    /\ PositionOf(args[2]) \notin Positions

\* C11 as stated: a create whose non-empty config has no position, or one
\* outside {top, bottom}, is not rejected: the constructor completes without
\* raising an error.
C11_BadPositionCompletes ==
    [][\A args \in ArgLists :
         (last'.op = "create" /\ BadPosition(args) /\ Create(args))
         => ~last'.threw
      ]_vars

\* the elements matching the blocker selector that intersect the viewport,
\* each judged by isElementVisible
VisibleBlockers(bl, vp) == {i \in 1..Len(bl) : isElementVisible(bl[i], vp)}

\* C12: blocker visibility is the logical OR of the per-element visibility
\* over the elements matching at the time of the check: false when none
\* matches, true when any one of them is visible, wherever it is in the list.
C12_BlockerVisibleIsOr ==
    probe.asked = "isBlockerVisible"
    => /\ probe.value = (VisibleBlockers(probe.blockers, probe.viewport) # {})
       /\ probe.blockers = <<>> => ~probe.value

\* the check has answered true for two blockers of which only the first is
\* visible
C12_Witness ==
    /\ probe.asked = "isBlockerVisible" /\ probe.value
    /\ Len(probe.blockers) = 2
    /\ VisibleBlockers(probe.blockers, probe.viewport) = {1}

\* the display state of every banner element, by element id
DisplayState(cont) == {<<cont[i].id, cont[i].display>> : i \in 1..Len(cont)}

\* C13: the visibility recomputation is idempotent: run again right after a
\* scroll, with the same blocker geometry and no create or destroy in
\* between, it leaves every banner's display as the first run left it.
C13_ScrollIdempotent ==
    [][\A bl \in PageLayouts :
         (last'.op = "scroll" /\ Scroll(bl, PageViewport))
         => LET again == setBannerDisplay(store', container', bl, PageViewport)
            IN  /\ again.threw = last'.threw
                /\ DisplayState(again.container) = DisplayState(container')
      ]_vars

\* a recomputation has completed and left a banner hidden
C13_Witness ==
    /\ last.op = "scroll" /\ ~last.threw
    /\ \E i \in 1..Len(container) : container[i].display = "none"
    /\ \E i \in 1..Len(container) : container[i].display = DisplayUnset

\* C14 as stated: in every reachable state, the initial one and those with
\* one position occupied included, the scroll-triggered recomputation runs to
\* completion without raising an error.
C14_ScrollNeverThrows ==
    last.op = "scroll" => ~last.threw

\* the element ids registered in the store
RegisteredIds(st) == {st[p].html : p \in {q \in Positions : Occupied(st, q)}}

\* C15: registry and document agree after every operation, completed or
\* failed: slot p is non-empty exactly when the container holds a banner
\* element for p, the slot records that element, and a banner that was
\* evicted or destroyed has neither a slot nor an element.
C15_StoreMatchesDocument ==
    /\ \A p \in Positions :
         /\ Occupied(store, p) <=> ElementsAt(container, p) # {}
         /\ Occupied(store, p)
            => ElementsAt(container, p) = {getElementById(container, store[p].html)}
    /\ \A i \in 1..Len(container) : container[i].style \in Positions
    /\ \A h \in 1..Len(elemOf) :
         elemOf[h] \in IdsIn(container) <=> elemOf[h] \in RegisteredIds(store)

\* a destroy() has completed, one position is still occupied and some banner
\* created earlier is gone from both the store and the document
C15_Witness ==
    /\ last.op = "destroy" /\ ~last.threw
    /\ \E p \in Positions : Occupied(store, p)
    /\ \E p \in Positions : ~Occupied(store, p)
    /\ \E h \in 1..Len(elemOf) :
         elemOf[h] \notin IdsIn(container) /\ elemOf[h] \notin RegisteredIds(store)

\* the config a constructor call with two arguments binds to its instance
BoundConfig(args) == IF args[2] = EmptyObj THEN DefaultConfig ELSE args[2]

\* C16: within a create at an occupied position the old element is removed
\* from the container before the new element is appended and before the
\* slot is overwritten, and at no intermediate step does the container hold
\* two banner elements of that position.
C16_EvictBeforeInsert ==
    [][\A args \in ArgLists :
         (/\ last'.op = "create" /\ ~last'.threw /\ last'.path = "replace"
          /\ Create(args))
         => LET p     == TargetPosition(args)
                old   == store[p].html
                new   == nextId + 1
                steps == renderBannerSteps(store, container, args[1],
                                           BoundConfig(args), new)
            IN  /\ steps[1].store = store /\ steps[1].container = container
                /\ steps[4].store = store' /\ steps[4].container = container'
                /\ \A k \in 1..4 :
                     Cardinality(ElementsAt(steps[k].container, p)) <= 1
                /\ \A k \in 1..4 :
                     /\ new \in IdsIn(steps[k].container)
                        => old \notin IdsIn(steps[k].container)
                     /\ steps[k].store[p].html = new
                        => old \notin IdsIn(steps[k].container)
                /\ old \notin IdsIn(steps[2].container)
                /\ new \notin IdsIn(steps[2].container)
                /\ new \in IdsIn(steps[3].container)
                /\ steps[3].store[p].html = old
                /\ steps[4].store[p].html = new
      ]_vars

\* a create has replaced the banner of its position while the other position
\* is occupied too
C16_Witness ==
    /\ last.op = "create" /\ ~last.threw /\ last.path = "replace"
    /\ Occupied(store, "top") /\ Occupied(store, "bottom")
    /\ \E h \in 1..Len(elemOf) : elemOf[h] \notin IdsIn(container)

\* C17: over all bounded rectangles and viewports, isElementVisible is true
\* exactly when bottom >= 0 and top < viewport height; bottom = 0 is visible
\* and top = viewport height is not.
C17_VisibleIffIntersects ==
    probe.asked = "isElementVisible"
    => LET rect == probe.blockers[probe.index]
           h    == viewHeight(probe.viewport)
       IN  /\ probe.value = (rect.bottom >= 0 /\ rect.top < h)
           /\ rect.bottom = 0 /\ rect.top < h => probe.value
           /\ rect.top = h => ~probe.value

\* an element whose bottom edge is at 0 has been judged visible
C17_Witness ==
    /\ probe.asked = "isElementVisible" /\ probe.value
    /\ probe.blockers[probe.index].bottom = 0

\* the element without its display state
Undisplayed(e) == [e EXCEPT !.display = DisplayUnset]

\* C18: a scroll event changes only display state, whether the handler
\* completes or fails: the registry and the handles stay as they are, and the
\* container keeps the same elements in the same order, each unchanged apart
\* from its display.
C18_ScrollOnlyDisplay ==
    [][last'.op = "scroll"
       => /\ store' = store
          /\ handles' = handles /\ elemOf' = elemOf
          /\ Len(container') = Len(container)
          /\ \A i \in 1..Len(container) :
               Undisplayed(container'[i]) = Undisplayed(container[i])
      ]_vars

\* a scroll event has completed and changed a display
C18_Witness ==
    /\ last.op = "scroll" /\ ~last.threw
    /\ \E i \in 1..Len(container) : container[i].display = "block"

\* C19: destroy() on a handle whose position slot is empty raises an error
\* and leaves both slots and every rendered element unchanged.
C19_DestroyEmptySlotThrows ==
    [][\A h \in 1..Len(handles) :
         (/\ last'.op = "destroy"
          /\ ~Occupied(store, PositionOf(handles[h].config))
          /\ Destroy(h))
         => /\ last'.threw
            /\ store' = store
            /\ container' = container
      ]_vars

\* a destroy() has raised an error while the other position is rendered
C19_Witness ==
    /\ last.op = "destroy" /\ last.threw
    /\ ~Occupied(store, PositionOf(handles[last.handle].config))
    /\ container # <<>>

\* C20: a create that fails leaves both slots and the rendered elements as
\* they were before the call: nothing is evicted, appended or registered.
C20_FailedCreateNoEffect ==
    [][\A args \in ArgLists :
         (last'.op = "create" /\ last'.threw /\ Create(args))
         => /\ Len(args) < 2 \/ BadPosition(args)
            /\ store' = store
            /\ container' = container
            /\ handles' = handles /\ elemOf' = elemOf
      ]_vars

\* a create with a config has raised an error while both positions are
\* occupied
C20_Witness ==
    /\ last.op = "create" /\ last.threw /\ last.argc = 2
    /\ Occupied(store, "top") /\ Occupied(store, "bottom")

=============================================================================
